---- MODULE Spec2Model ----
(***************************************************************************)
(* Model of src/src/lib.rs: progressed_hashing, the parallel hashing       *)
(* pipeline that reports its progress over an unbounded mpsc channel.      *)
(*                                                                         *)
(* One invocation is an orchestrator (the async fn and the closure it      *)
(* hands to spawn_blocking), one task per enumerated file (the closure of  *)
(* par_iter().map), and the consumer that owns the returned stream.        *)
(* Every variable is indexed by the invocation.                            *)
(***************************************************************************)
EXTENDS Integers, Sequences, FiniteSets, TLC

\* ------------------------------------------------------------------ bounds
\* Largest number of regular files under the root directory.
MaxFiles == 3
\* Threads of the rayon pool: files whose closure is running at one time.
Workers == 2
\* Invocations of progressed_hashing in one run of the model.
Invocations == {1, 2}

\* ------------------------------------------------------- the file system
\* The root directory itself: WalkDir yields it first; it is no regular file.
RootDir == "root"
\* Paths of the regular files that may exist under the root. The last two
\* are not valid UTF-8 (they differ in one invalid byte).
PathBufs == {"root/a", "root/n_FF", "root/n_FE"}

\* Content of each file (fixed for the run: the files are unchanged).
Content(p) == CASE p = "root/a" -> "x"
                [] p = "root/n_FF" -> "y"
                [] p = "root/n_FE" -> "x"

\* File systems: whether walking the root faults, which files exist, and
\* which of those cannot be opened or read.
FileSystems ==
    { [walkFault |-> w, files |-> fl, unreadable |-> u] :
        w \in BOOLEAN,
        fl \in {s \in SUBSET PathBufs : Cardinality(s) <= MaxFiles},
        u \in SUBSET PathBufs }

VARIABLES
    fs,                    \* the file system (unchanged during the run)
    pc,                    \* pc[i]: position of the orchestrator
    rx,                    \* rx[i]: the receiving end, as the consumer holds it
    file_paths,            \* file_paths[i]: paths collect_files_in_dir returned
    task,                  \* task[i][p]: position of the closure run for path p
    total_hashed_files,    \* total_hashed_files[i][p]: the closure's local
    files_hashed_counter,  \* files_hashed_counter[i]: the AtomicUsize
    tuples,                \* tuples[i]: (path, digest) pairs the closures returned
    sent,                  \* sent[i]: every event sent into the channel, in order
    recvd                  \* recvd[i]: how many of them the consumer received

vars == <<fs, pc, rx, file_paths, task, total_hashed_files,
          files_hashed_counter, tuples, sent, recvd>>

\* ---------------------------------------------------------------- events
Started(n) == [type |-> "Started", n |-> n]
Progress(file, total) ==
    [type |-> "Progress", current_file |-> file, total_hashed_files |-> total]
Result(map) == [type |-> "Result", map |-> map]
Error(kind) == [type |-> "Error", kind |-> kind]

\* ------------------------------------------------------- pure functions
\* Entries WalkDir yields for the root: the root directory and the files.
WalkDir(f) == {[path |-> RootDir, is_file |-> FALSE]}
                \cup {[path |-> p, is_file |-> TRUE] : p \in f.files}

\* collect_files_in_dir: the regular files, or the traversal error.
collect_files_in_dir(f) ==
    IF f.walkFault
    THEN [ok |-> FALSE, paths |-> {}]
    ELSE [ok |-> TRUE,
          paths |-> {e.path : e \in {d \in WalkDir(f) : d.is_file}}]

\* The BLAKE3 digest in lowercase hex, as an injective table of the contents.
Blake3Hex(content) == CASE content = "x" -> "a7f3"
                        [] content = "y" -> "0c9e"

\* calculate_hash_with_blake3: the digest, or the io error.
calculate_hash_with_blake3(f, p) ==
    IF p \in f.unreadable
    THEN [ok |-> FALSE, hash |-> ""]
    ELSE [ok |-> TRUE, hash |-> Blake3Hex(Content(p))]

\* path_buf.display().to_string(): lossy, every invalid byte becomes U+FFFD.
Display(p) == CASE p = "root/a" -> "root/a"
                [] p = "root/n_FF" -> "root/n_U+FFFD"
                [] p = "root/n_FE" -> "root/n_U+FFFD"

\* Mutant: the value after the increment is returned (add_fetch).
fetch_add_returns_new(c) == c + 1
\* AtomicUsize::fetch_add(1): the value returned, and the value stored.
fetch_add_returns(c) == c
\* Mutant: the counter is read but the increment is lost.
fetch_add_stores_lost(c) == c
fetch_add_stores(c) == c + 1

\* Mutant: one hasher is shared by the closures and never reset, so only the
\* first file hashed gets the digest of its own content.
closure_returns_shared_hasher(p, hash, total) ==
    <<p, IF total = 0 THEN hash ELSE "ffff">>
\* Line 112: the pair the closure returns for a hashed file.
closure_returns(p, hash, total) == <<p, hash>>

\* Mutant: the map is keyed by the displayed path, not by the path.
collect_by_display(pairs) ==
    [s \in {Display(t[1]) : t \in pairs} |->
        (CHOOSE t \in pairs : Display(t[1]) = s)[2]]
\* collect() into HashMap: the mapping of the (path, digest) pairs.
collect(pairs) ==
    [p \in {t[1] : t \in pairs} |-> (CHOOSE t \in pairs : t[1] = p)[2]]

\* --------------------------------------------------------------- channel
\* Line 83: the channel an invocation sends into: mpsc::unbounded_channel()
\* makes a new one in every call.
channel_of(i) == i

\* Mutant: the counter is a static shared by all invocations.
counter_of_static(i) == 1
\* Line 97: the counter an invocation increments: Arc::new(AtomicUsize::new(0))
\* makes a new one in every call.
counter_of(i) == i

\* The receiver exists (in the function's frame or in the consumer's hands).
RxAlive(i) == rx[i] # "dropped"

\* Mutant: the sender of the error path is kept alive (leaked).
TxReleased_leaked(i) == pc[i] \in {"Completed", "Panicked"}
\* Mutant: the sender is dropped as soon as the blocking task is spawned.
TxReleased_early(i) == pc[i] \in {"Failed", "Dispatching", "Completed", "Panicked"}
\* Every sender handle is gone: the function returned on the error path, or
\* the closure given to spawn_blocking returned or unwound.
TxReleased(i) == pc[i] \in {"Failed", "Completed", "Panicked"}

\* Events the consumer has received, in order.
Delivered(i) == SubSeq(sent[i], 1, recvd[i])

\* Closures that are running on a pool thread.
Running(i) == {p \in file_paths[i] : task[i][p] \in {"hashing", "fetched"}}

\* Mutant: the map is taken as soon as every closure has started.
AllProcessed_started(i) == \A p \in file_paths[i] : task[i][p] # "pending"
\* par_iter().map().collect() is over: every closure returned.
AllProcessed(i) == \A p \in file_paths[i] : task[i][p] = "done"

\* A closure panicked (unwrap of a failed send).
SomePanicked(i) == \E p \in file_paths[i] : task[i][p] = "panicked"

\* ------------------------------------------------------------------ Init
Init ==
    /\ fs \in FileSystems
    /\ fs.unreadable \subseteq fs.files
    /\ pc = [i \in Invocations |-> "NotStarted"]
    /\ rx = [i \in Invocations |-> "none"]
    /\ file_paths = [i \in Invocations |-> {}]
    /\ task = [i \in Invocations |-> <<>>]
    /\ total_hashed_files = [i \in Invocations |-> <<>>]
    /\ files_hashed_counter = [i \in Invocations |-> 0]
    /\ tuples = [i \in Invocations |-> {}]
    /\ sent = [i \in Invocations |-> <<>>]
    /\ recvd = [i \in Invocations |-> 0]

\* --------------------------------------------------------- orchestrator
\* The future of progressed_hashing is polled: the body starts to run.
Invoke(i) ==
    /\ pc[i] = "NotStarted"
    /\ pc' = [pc EXCEPT ![i] = "Enumerating"]
    /\ UNCHANGED <<fs, rx, file_paths, task, total_hashed_files,
                   files_hashed_counter, tuples, sent, recvd>>

\* Lines 85-89, 97-99: enumeration succeeded; Started is sent (the receiver is
\* in scope, the send cannot fail), the counter is created and the blocking
\* task is spawned.
EnumerateOk(i) ==
    /\ pc[i] = "Enumerating"
    /\ collect_files_in_dir(fs).ok
    /\ LET paths == collect_files_in_dir(fs).paths IN
         /\ sent' = [sent EXCEPT ![channel_of(i)] = Append(@, Started(Cardinality(paths)))]
         /\ file_paths' = [file_paths EXCEPT ![i] = paths]
         /\ task' = [task EXCEPT ![i] = [p \in paths |-> "pending"]]
    /\ files_hashed_counter' = [files_hashed_counter EXCEPT ![counter_of(i)] = 0]
    /\ pc' = [pc EXCEPT ![i] = "Dispatching"]
    /\ UNCHANGED <<fs, rx, total_hashed_files, tuples, recvd>>

\* Mutant: the error is reported but the function does not return.
EnumerateErr_no_return(i) ==
    /\ pc[i] = "Enumerating"
    /\ ~collect_files_in_dir(fs).ok
    /\ sent' = [sent EXCEPT ![channel_of(i)] = Append(@, Error("ErrCollectingFiles"))]
    /\ pc' = [pc EXCEPT ![i] = "Dispatching"]
    /\ UNCHANGED <<fs, rx, file_paths, task, total_hashed_files,
                   files_hashed_counter, tuples, recvd>>

\* Lines 90-94: enumeration failed; the error event is sent and the stream
\* is returned; tx goes out of scope.
EnumerateErr(i) ==
    /\ pc[i] = "Enumerating"
    /\ ~collect_files_in_dir(fs).ok
    /\ sent' = [sent EXCEPT ![channel_of(i)] = Append(@, Error("ErrCollectingFiles"))]
    /\ pc' = [pc EXCEPT ![i] = "Failed"]
    /\ rx' = [rx EXCEPT ![i] = "receiving"]
    /\ UNCHANGED <<fs, file_paths, task, total_hashed_files,
                   files_hashed_counter, tuples, recvd>>

\* Line 126: the stream is returned to the caller while the blocking task
\* runs on its own thread.
ReturnStream(i) ==
    /\ pc[i] \in {"Dispatching", "Completed", "Panicked"}
    /\ rx[i] = "none"
    /\ rx' = [rx EXCEPT ![i] = "receiving"]
    /\ UNCHANGED <<fs, pc, file_paths, task, total_hashed_files,
                   files_hashed_counter, tuples, sent, recvd>>

\* Line 123: collect() returned the map; Result is sent and the closure
\* returns, or the send fails (receiver dropped) and unwrap panics.
SendResult(i) ==
    /\ pc[i] = "Dispatching"
    /\ AllProcessed(i)
    /\ IF RxAlive(channel_of(i))
       THEN /\ sent' = [sent EXCEPT ![channel_of(i)] = Append(@, Result(collect(tuples[i])))]
            /\ pc' = [pc EXCEPT ![i] = "Completed"]
       ELSE /\ pc' = [pc EXCEPT ![i] = "Panicked"]
            /\ UNCHANGED sent
    /\ UNCHANGED <<fs, rx, file_paths, task, total_hashed_files,
                   files_hashed_counter, tuples, recvd>>

\* Lines 102-121: a closure panicked; once no closure is running any more
\* rayon resumes the panic in collect() and the blocking task unwinds
\* without reaching line 123.
PropagatePanic(i) ==
    /\ pc[i] = "Dispatching"
    /\ SomePanicked(i)
    /\ \A p \in file_paths[i] : task[i][p] \in {"done", "panicked", "skipped"}
    /\ pc' = [pc EXCEPT ![i] = "Panicked"]
    /\ UNCHANGED <<fs, rx, file_paths, task, total_hashed_files,
                   files_hashed_counter, tuples, sent, recvd>>

\* --------------------------------------------------------------- workers
\* Line 103: a pool thread takes the closure for path p and starts hashing.
StartHash(i, p) ==
    /\ pc[i] = "Dispatching"
    /\ p \in file_paths[i]
    /\ task[i][p] = "pending"
    /\ Cardinality(Running(i)) < Workers
    /\ task' = [task EXCEPT ![i][p] = "hashing"]
    /\ UNCHANGED <<fs, pc, rx, file_paths, total_hashed_files,
                   files_hashed_counter, tuples, sent, recvd>>

\* Lines 102-121 after a panic: rayon may drop work that has not started
\* (the rest of the panicking thread's chunk) instead of running it.
Abandon(i, p) ==
    /\ pc[i] = "Dispatching"
    /\ p \in file_paths[i]
    /\ task[i][p] = "pending"
    /\ SomePanicked(i)
    /\ task' = [task EXCEPT ![i][p] = "skipped"]
    /\ UNCHANGED <<fs, pc, rx, file_paths, total_hashed_files,
                   files_hashed_counter, tuples, sent, recvd>>

\* Lines 103-105: the hash succeeded; fetch_add on the shared counter.
HashOk(i, p) ==
    /\ p \in file_paths[i]
    /\ task[i][p] = "hashing"
    /\ calculate_hash_with_blake3(fs, p).ok
    /\ total_hashed_files' = [total_hashed_files EXCEPT
          ![i] = (p :> fetch_add_returns(files_hashed_counter[counter_of(i)])) @@ @]
    /\ files_hashed_counter' = [files_hashed_counter EXCEPT
          ![counter_of(i)] = fetch_add_stores(@)]
    /\ task' = [task EXCEPT ![i][p] = "fetched"]
    /\ UNCHANGED <<fs, pc, rx, file_paths, tuples, sent, recvd>>

\* Lines 107-112: Progress is sent and the closure returns (path, hash), or
\* the send fails (receiver dropped) and unwrap panics.
SendProgress(i, p) ==
    /\ p \in file_paths[i]
    /\ task[i][p] = "fetched"
    /\ IF RxAlive(channel_of(i))
       THEN /\ sent' = [sent EXCEPT ![channel_of(i)] =
                   Append(@, Progress(Display(p), total_hashed_files[i][p]))]
            /\ tuples' = [tuples EXCEPT ![i] =
                   @ \cup {closure_returns(p,
                               calculate_hash_with_blake3(fs, p).hash,
                               total_hashed_files[i][p])}]
            /\ task' = [task EXCEPT ![i][p] = "done"]
       ELSE /\ task' = [task EXCEPT ![i][p] = "panicked"]
            /\ UNCHANGED <<sent, tuples>>
    /\ total_hashed_files' = [total_hashed_files EXCEPT
          ![i] = [q \in (DOMAIN @) \ {p} |-> @[q]]]
    /\ UNCHANGED <<fs, pc, rx, file_paths, files_hashed_counter, recvd>>

\* Mutant: a failed file is counted as hashed.
HashErr_counted(i, p) ==
    /\ p \in file_paths[i]
    /\ task[i][p] = "hashing"
    /\ ~calculate_hash_with_blake3(fs, p).ok
    /\ files_hashed_counter' = [files_hashed_counter EXCEPT
          ![counter_of(i)] = fetch_add_stores(@)]
    /\ IF RxAlive(channel_of(i))
       THEN /\ sent' = [sent EXCEPT ![channel_of(i)] = Append(@, Error("ErrHashingFile"))]
            /\ tuples' = [tuples EXCEPT ![i] = @ \cup {<<p, "">>}]
            /\ task' = [task EXCEPT ![i][p] = "done"]
       ELSE /\ task' = [task EXCEPT ![i][p] = "panicked"]
            /\ UNCHANGED <<sent, tuples>>
    /\ UNCHANGED <<fs, pc, rx, file_paths, total_hashed_files, recvd>>

\* Mutant: the fail-fast variant, the hash result is unwrapped.
HashErr_fail_fast(i, p) ==
    /\ p \in file_paths[i]
    /\ task[i][p] = "hashing"
    /\ ~calculate_hash_with_blake3(fs, p).ok
    /\ task' = [task EXCEPT ![i][p] = "panicked"]
    /\ UNCHANGED <<fs, pc, rx, file_paths, total_hashed_files,
                   files_hashed_counter, tuples, sent, recvd>>

\* Lines 114-118: the hash failed; the per-file Error is sent and the closure
\* returns (path, ""), or the send fails and unwrap panics.
HashErr(i, p) ==
    /\ p \in file_paths[i]
    /\ task[i][p] = "hashing"
    /\ ~calculate_hash_with_blake3(fs, p).ok
    /\ IF RxAlive(channel_of(i))
       THEN /\ sent' = [sent EXCEPT ![channel_of(i)] = Append(@, Error("ErrHashingFile"))]
            /\ tuples' = [tuples EXCEPT ![i] = @ \cup {<<p, "">>}]
            /\ task' = [task EXCEPT ![i][p] = "done"]
       ELSE /\ task' = [task EXCEPT ![i][p] = "panicked"]
            /\ UNCHANGED <<sent, tuples>>
    /\ UNCHANGED <<fs, pc, rx, file_paths, total_hashed_files,
                   files_hashed_counter, recvd>>

\* -------------------------------------------------------------- consumer
\* The consumer polls the stream and gets the next event.
Recv(i) ==
    /\ rx[i] = "receiving"
    /\ recvd[i] < Len(sent[i])
    /\ recvd' = [recvd EXCEPT ![i] = @ + 1]
    /\ UNCHANGED <<fs, pc, rx, file_paths, task, total_hashed_files,
                   files_hashed_counter, tuples, sent>>

\* The consumer polls the stream, the queue is empty and every sender is
\* gone: the stream yields None.
ObserveEnd(i) ==
    /\ rx[i] = "receiving"
    /\ recvd[i] = Len(sent[i])
    /\ TxReleased(i)
    /\ rx' = [rx EXCEPT ![i] = "eos"]
    /\ UNCHANGED <<fs, pc, file_paths, task, total_hashed_files,
                   files_hashed_counter, tuples, sent, recvd>>

\* The consumer drops the stream before it saw the end: the channel closes.
DropRx(i) ==
    /\ rx[i] = "receiving"
    /\ rx' = [rx EXCEPT ![i] = "dropped"]
    /\ UNCHANGED <<fs, pc, file_paths, task, total_hashed_files,
                   files_hashed_counter, tuples, sent, recvd>>

\* ------------------------------------------------------- specifications
Step(i) ==
    \/ Invoke(i)
    \/ EnumerateOk(i)
    \/ EnumerateErr(i)
    \/ ReturnStream(i)
    \/ SendResult(i)
    \/ PropagatePanic(i)
    \/ \E p \in PathBufs : StartHash(i, p)
    \/ \E p \in PathBufs : Abandon(i, p)
    \/ \E p \in PathBufs : HashOk(i, p)
    \/ \E p \in PathBufs : SendProgress(i, p)
    \/ \E p \in PathBufs : HashErr(i, p)
    \/ Recv(i)
    \/ ObserveEnd(i)
    \/ DropRx(i)

\* One invocation.
Next == Step(1)

Spec == Init /\ [][Next]_vars

\* The threads of an invocation: the orchestrator (the async fn, then the
\* blocking task), the pool thread that runs the closure of a path, and a
\* consumer that keeps polling its stream.
Orchestrator(i) ==
    EnumerateOk(i) \/ EnumerateErr(i) \/ ReturnStream(i)
        \/ SendResult(i) \/ PropagatePanic(i)
Worker(i, p) ==
    StartHash(i, p) \/ Abandon(i, p) \/ HashOk(i, p)
        \/ SendProgress(i, p) \/ HashErr(i, p)
Consumer(i) == Recv(i) \/ ObserveEnd(i)

\* Every thread that can run does run; dropping the stream is up to the
\* consumer.
FairSpec ==
    /\ Init /\ [][Next]_vars
    /\ WF_vars(Orchestrator(1))
    /\ \A p \in PathBufs : WF_vars(Worker(1, p))
    /\ WF_vars(Consumer(1))

\* The steps of an invocation whose consumer keeps its stream.
StepKept(i) ==
    \/ Invoke(i)
    \/ EnumerateOk(i)
    \/ EnumerateErr(i)
    \/ ReturnStream(i)
    \/ SendResult(i)
    \/ \E p \in PathBufs : StartHash(i, p)
    \/ \E p \in PathBufs : HashOk(i, p)
    \/ \E p \in PathBufs : SendProgress(i, p)
    \/ \E p \in PathBufs : HashErr(i, p)
    \/ Recv(i)
    \/ ObserveEnd(i)

\* Two invocations over the same file system, running concurrently, each
\* consumer receiving to the end.
NextPair == \E i \in Invocations : StepKept(i)

PairSpec == Init /\ [][NextPair]_vars


\* --------------------------------------------------- reading the events
\* Indices of the events of type T in a sequence of events.
OfType(seq, T) == {k \in 1..Len(seq) : seq[k].type = T}

\* Indices of the Error events of one kind.
ErrorsOf(seq, kind) == {k \in OfType(seq, "Error") : seq[k].kind = kind}

\* Indices of the file-level events: Progress and per-file Error.
FileLevel(seq) == OfType(seq, "Progress") \cup ErrorsOf(seq, "ErrHashingFile")

\* The total_hashed_files values the Progress events of a sequence carry.
ProgressTotals(seq) ==
    {seq[k].total_hashed_files : k \in OfType(seq, "Progress")}

\* The files of the file system that can, and that cannot, be hashed.
Readable == fs.files \ fs.unreadable
Unreadable == fs.files \cap fs.unreadable

\* The consumer received every event up to the end of the sequence.
ReceivedAll(i) == rx[i] = "eos"

\* ------------------------------------------------------------------ C1
\* C1: when enumeration succeeds with N files and the consumer receives
\* until the channel closes, the delivered sequence has exactly one Started,
\* carrying N, exactly N file-level events (one Progress per file that
\* hashes, one per-file Error per file that does not), and exactly one
\* Result, whose mapping has N entries; for N = 0 it is Started(0),
\* Result({}).
C1_EventCounts ==
    \A i \in Invocations :
        (ReceivedAll(i) /\ ~fs.walkFault) =>
            LET d == Delivered(i)
                N == Cardinality(fs.files)
            IN  /\ Cardinality(OfType(d, "Started")) = 1
                /\ \A k \in OfType(d, "Started") : d[k].n = N
                /\ Cardinality(FileLevel(d)) = N
                /\ Cardinality(OfType(d, "Progress")) = Cardinality(Readable)
                /\ Cardinality(ErrorsOf(d, "ErrHashingFile"))
                       = Cardinality(Unreadable)
                /\ ErrorsOf(d, "ErrCollectingFiles") = {}
                /\ Cardinality(OfType(d, "Result")) = 1
                /\ \A k \in OfType(d, "Result") :
                       Cardinality(DOMAIN d[k].map) = N
                /\ Len(d) = N + 2
                /\ (N = 0 => d = <<Started(0), Result(<<>>)>>)

\* A consumer received a whole sequence with a Progress and a per-file Error.
C1_Witness ==
    \E i \in Invocations :
        /\ ReceivedAll(i)
        /\ Cardinality(fs.files) = MaxFiles
        /\ OfType(Delivered(i), "Progress") # {}
        /\ ErrorsOf(Delivered(i), "ErrHashingFile") # {}
        /\ OfType(Delivered(i), "Result") # {}

\* ------------------------------------------------------------------ C2
\* C2: after a successful enumeration Started is the first event sent,
\* Result is the last, and every Progress and per-file Error lies between
\* them: nothing is sent after Result.
C2_Ordering ==
    \A i \in Invocations :
        (~fs.walkFault /\ sent[i] # <<>>) =>
            /\ sent[i][1].type = "Started"
            /\ \A k \in OfType(sent[i], "Result") : k = Len(sent[i])
            /\ \A k \in FileLevel(sent[i]) :
                   /\ k > 1
                   /\ \A j \in OfType(sent[i], "Result") : k < j
            /\ \A k \in OfType(sent[i], "Started") : k = 1

\* Result was sent after file-level events of two concurrent workers.
C2_Witness ==
    \E i \in Invocations :
        /\ pc[i] = "Completed"
        /\ Cardinality(FileLevel(sent[i])) >= 2
        /\ sent[i][Len(sent[i])].type = "Result"

\* ------------------------------------------------------------------ C3
\* C3: when enumeration reports a traversal error the events are exactly one
\* Error(ErrCollectingFiles), after which the channel is closed: no Started,
\* Progress, per-file Error or Result, no hashing work, counter untouched.
C3_CollectionFailure ==
    \A i \in Invocations :
        fs.walkFault =>
            /\ pc[i] \in {"NotStarted", "Enumerating", "Failed"}
            /\ sent[i] = IF pc[i] = "Failed"
                         THEN <<Error("ErrCollectingFiles")>>
                         ELSE <<>>
            /\ (pc[i] = "Failed" => TxReleased(i))
            /\ file_paths[i] = {}
            /\ DOMAIN task[i] = {}
            /\ files_hashed_counter[i] = 0
            /\ tuples[i] = {}
            /\ (ReceivedAll(i) =>
                   Delivered(i) = <<Error("ErrCollectingFiles")>>)

\* The consumer received the collection error and then saw the end, although
\* files exist under the root.
C3_Witness ==
    \E i \in Invocations :
        /\ fs.walkFault
        /\ fs.files # {}
        /\ pc[i] = "Failed"
        /\ ReceivedAll(i)
        /\ recvd[i] = 1

\* ------------------------------------------------------------------ C4
\* C4: the total_hashed_files values of the Progress events are pairwise
\* distinct, no two workers hold the same pre-increment value, and once all
\* k successful files are reported the values are exactly 0..k-1.
C4_CounterValues ==
    \A i \in Invocations :
        /\ \A k, l \in OfType(sent[i], "Progress") :
               k # l => sent[i][k].total_hashed_files
                            # sent[i][l].total_hashed_files
        /\ \A p, q \in DOMAIN total_hashed_files[i] :
               p # q => total_hashed_files[i][p] # total_hashed_files[i][q]
        /\ \A p \in DOMAIN total_hashed_files[i] :
               total_hashed_files[i][p] \notin ProgressTotals(sent[i])
        /\ (pc[i] = "Completed" =>
               ProgressTotals(sent[i]) = 0..(Cardinality(Readable) - 1))

\* Two workers hold their pre-increment values at the same time.
C4_Witness ==
    \E i \in Invocations :
        Cardinality(DOMAIN total_hashed_files[i]) >= 2

\* ------------------------------------------------------------------ C5
\* C5: a per-file hashing failure is not fatal. While the receiver is alive
\* no closure and no orchestrator faults; at completion each failed file has
\* produced one Error(ErrHashingFile) and no counter increment and is in the
\* Result with the digest "", and every other file has a Progress event and
\* its real digest in the Result, which has N entries.
C5_NonFatalFailure ==
    \A i \in Invocations :
        /\ RxAlive(i) =>
               /\ pc[i] # "Panicked"
               /\ \A p \in file_paths[i] :
                      task[i][p] \notin {"panicked", "skipped"}
        /\ Cardinality(ErrorsOf(sent[i], "ErrHashingFile"))
               = Cardinality({p \in Unreadable : <<p, "">> \in tuples[i]})
        /\ pc[i] = "Completed" =>
               LET map == sent[i][Len(sent[i])].map IN
               /\ Cardinality(ErrorsOf(sent[i], "ErrHashingFile"))
                      = Cardinality(Unreadable)
               /\ files_hashed_counter[i] = Cardinality(Readable)
               /\ DOMAIN map = fs.files
               /\ \A p \in Unreadable : map[p] = ""
               /\ \A p \in Readable :
                      /\ map[p] = Blake3Hex(Content(p))
                      /\ map[p] # ""
                      /\ \E k \in OfType(sent[i], "Progress") :
                             sent[i][k].current_file = Display(p)

\* The pipeline completed although a file failed, and another was hashed.
C5_Witness ==
    \E i \in Invocations :
        /\ pc[i] = "Completed"
        /\ Unreadable # {}
        /\ Readable # {}
        /\ ErrorsOf(sent[i], "ErrHashingFile") # {}


\* ------------------------------------------------------------------ C6
\* C6: if the consumer drops the receiver before completion, every later
\* send is a silent no-op: no worker and no orchestrator ever faults.
C6_NoProducerFault ==
    \A i \in Invocations :
        /\ pc[i] # "Panicked"
        /\ \A p \in file_paths[i] : task[i][p] # "panicked"

\* ------------------------------------------------------------------ C7
\* C7: if the consumer drops the receiver while the files are being hashed,
\* every file is still processed and the pipeline reaches Completed.
C7_CompletesAfterDrop ==
    \A i \in Invocations :
        (rx[i] = "dropped" /\ pc[i] = "Dispatching")
            ~> (pc[i] = "Completed" /\ AllProcessed(i))

\* ------------------------------------------------------------------ C8
\* C8: the sequence is finite: once the body runs, a consumer that keeps its
\* stream eventually observes the end of the sequence, with every sender
\* released and the terminal event (Result or Error(ErrCollectingFiles))
\* received last.
EndObserved(i) ==
    /\ rx[i] = "eos"
    /\ pc[i] \in {"Failed", "Completed"}
    /\ recvd[i] = Len(sent[i])
    /\ Len(sent[i]) > 0
    /\ LET last == sent[i][Len(sent[i])] IN
           \/ last.type = "Result"
           \/ last = Error("ErrCollectingFiles")

C8_Terminates ==
    \A i \in Invocations :
        (pc[i] = "Enumerating") ~> (rx[i] = "dropped" \/ EndObserved(i))

\* The consumer observed the end after a Result for MaxFiles files, and
\* (another run) after a collection failure.
C8_Witness ==
    \E i \in Invocations :
        /\ EndObserved(i)
        /\ pc[i] = "Completed"
        /\ Cardinality(file_paths[i]) = MaxFiles

\* ------------------------------------------------------------------ C9
\* C9: two invocations over the same unchanged files deliver the same Result
\* mapping, whatever the interleaving of their workers.
ResultMap(i) == sent[i][Len(sent[i])].map

C9_SameResult ==
    \A i, j \in Invocations :
        (pc[i] = "Completed" /\ pc[j] = "Completed")
            => ResultMap(i) = ResultMap(j)

\* Both invocations completed, and a file that got one total_hashed_files in
\* the first invocation got another in the second.
C9_Witness ==
    /\ pc[1] = "Completed"
    /\ pc[2] = "Completed"
    /\ Cardinality(Readable) >= 2
    /\ \E k \in OfType(sent[1], "Progress"), l \in OfType(sent[2], "Progress") :
           /\ sent[1][k].current_file = sent[2][l].current_file
           /\ sent[1][k].total_hashed_files # sent[2][l].total_hashed_files
           /\ k # l

\* ----------------------------------------------------------------- C10
\* C10: the channel closes only after the terminal state: a consumer that
\* observes the end received Result or Error(ErrCollectingFiles) last; no
\* sender is released while a closure is running, nor, with the receiver
\* alive, before every closure returned; nothing is sent after the terminal
\* event.
Terminal(seq) == OfType(seq, "Result") \cup ErrorsOf(seq, "ErrCollectingFiles")

C10_ClosedAfterTerminal ==
    \A i \in Invocations :
        /\ ReceivedAll(i) =>
               /\ recvd[i] > 0
               /\ recvd[i] \in Terminal(Delivered(i))
        /\ pc[i] \in {"Failed", "Completed", "Panicked"} =>
               /\ Running(i) = {}
               /\ (RxAlive(i) => AllProcessed(i))
        /\ \A k \in Terminal(sent[i]) : k = Len(sent[i])

\* The consumer observed the end right after the Result of a run in which
\* files were hashed.
C10_Witness ==
    \E i \in Invocations :
        /\ ReceivedAll(i)
        /\ file_paths[i] # {}
        /\ Delivered(i)[recvd[i]].type = "Result"


\* ----------------------------------------------------------------- C11
\* The steps of the state machine NotStarted -> Enumerating ->
\* (Failed | Dispatching) -> Completed.
MachineSteps ==
    { <<"NotStarted", "Enumerating">>, <<"Enumerating", "Failed">>,
      <<"Enumerating", "Dispatching">>, <<"Dispatching", "Completed">> }

\* C11: the pipeline state moves only along NotStarted -> Enumerating ->
\* (Failed | Dispatching) -> Completed; Failed and Completed are terminal;
\* and the step Dispatching -> Completed is taken only when every file has
\* been processed, no worker hashing or between its increment and its send.
C11_StateMachine ==
    [][\A i \in Invocations :
          pc'[i] # pc[i] =>
              /\ <<pc[i], pc'[i]>> \in MachineSteps
              /\ (pc'[i] = "Completed" =>
                     /\ AllProcessed(i)
                     /\ Running(i) = {})]_vars


\* ----------------------------------------------------------------- C12
\* The pre-increment values that workers hold between line 105 and line 107.
HeldTotals(i) ==
    {total_hashed_files[i][p] : p \in DOMAIN total_hashed_files[i]}

\* C12: Progress events need not be delivered in counter order, because
\* fetch-and-increment and send are two steps: whenever a Progress event
\* with total v has been sent, every smaller value has either been sent too
\* or is held by a worker that has incremented and not yet sent (C12_Witness
\* is the execution in which the larger value is delivered first).
C12_GapIsInFlight ==
    \A i \in Invocations :
        ~SomePanicked(i) =>
            \A v \in ProgressTotals(sent[i]) :
                \A u \in 0..(v - 1) :
                    u \in ProgressTotals(sent[i]) \cup HeldTotals(i)

\* The consumer received a Progress event with a larger total_hashed_files
\* before one with a smaller.
C12_Witness ==
    \E i \in Invocations :
        \E k, l \in OfType(Delivered(i), "Progress") :
            /\ k < l
            /\ Delivered(i)[k].total_hashed_files
                   > Delivered(i)[l].total_hashed_files


\* ----------------------------------------------------------------- C13
\* Files whose hash succeeded and whose closure has passed line 105.
Counted(i) ==
    {p \in file_paths[i] \cap Readable :
        task[i][p] \in {"fetched", "done", "panicked"}}

\* The state part of C13.
CounterBounds(i) ==
    /\ (pc[i] \in {"NotStarted", "Enumerating", "Failed"}
           => files_hashed_counter[i] = 0)
    /\ files_hashed_counter[i] = Cardinality(Counted(i))
    /\ Cardinality(OfType(sent[i], "Progress")) <= files_hashed_counter[i]
    /\ files_hashed_counter[i] <= Cardinality(file_paths[i])
    /\ \A k \in OfType(sent[i], "Progress") :
           /\ sent[i][1].type = "Started"
           /\ sent[i][k].total_hashed_files < sent[i][1].n
    /\ (pc[i] = "Completed" =>
           /\ files_hashed_counter[i]
                  = Cardinality(OfType(sent[i], "Progress"))
           /\ files_hashed_counter[i]
                  = Cardinality({p \in DOMAIN ResultMap(i) :
                                     ResultMap(i)[p] # ""}))

\* The step part of C13: the counter changes only by +1, in the step in
\* which the hash of one file succeeded.
CounterStep(i) ==
    files_hashed_counter'[i] # files_hashed_counter[i] =>
        /\ files_hashed_counter'[i] = files_hashed_counter[i] + 1
        /\ \E p \in file_paths[i] \cap Readable :
               /\ task[i][p] = "hashing"
               /\ task'[i][p] = "fetched"
               /\ \A q \in file_paths[i] \ {p} : task'[i][q] = task[i][q]

\* C13: the counter starts at 0 and only increases, by exactly 1 per
\* successfully hashed file; Progress events sent <= counter <= N; every
\* Progress carries a total_hashed_files below the N of Started; when Result
\* is sent the counter equals the number of Progress events and the number
\* of Result entries with a non-empty digest.
C13_Counter ==
    /\ [](\A i \in Invocations : CounterBounds(i))
    /\ [][\A i \in Invocations : CounterStep(i)]_vars

\* Result was sent with the counter at 2 and a failed file in the mapping.
C13_Witness ==
    \E i \in Invocations :
        /\ pc[i] = "Completed"
        /\ files_hashed_counter[i] = 2
        /\ \E p \in DOMAIN ResultMap(i) : ResultMap(i)[p] = ""


\* ----------------------------------------------------------------- C14
\* Indices of the Progress events whose current_file is the path p.
ProgressOf(i, p) ==
    {k \in OfType(sent[i], "Progress") : sent[i][k].current_file = Display(p)}

\* C14: the Result mapping agrees with the file-level events: its keys are
\* the enumerated paths; each path is the current_file of at most one
\* Progress event; a path has a non-empty digest exactly when one Progress
\* event for it was sent, and the digest "" exactly when its hashing failed
\* and an Error(ErrHashingFile) was sent instead.
C14_ResultAgreesWithEvents ==
    \A i \in Invocations :
        pc[i] = "Completed" =>
            /\ DOMAIN ResultMap(i) = file_paths[i]
            /\ \A p \in file_paths[i] :
                   /\ Cardinality(ProgressOf(i, p)) <= 1
                   /\ (ResultMap(i)[p] # ""
                          <=> Cardinality(ProgressOf(i, p)) = 1)
                   /\ (ResultMap(i)[p] = ""
                          <=> /\ ~calculate_hash_with_blake3(fs, p).ok
                              /\ ProgressOf(i, p) = {}
                              /\ ErrorsOf(sent[i], "ErrHashingFile") # {})


\* ----------------------------------------------------------------- C15
\* Sends the producers of invocation i have made: Started or the collection
\* error, one event per closure that returned, and Result.
OwnSends(i) ==
    (IF pc[i] \in {"NotStarted", "Enumerating"} THEN 0 ELSE 1)
        + Cardinality({p \in file_paths[i] : task[i][p] = "done"})
        + (IF pc[i] = "Completed" THEN 1 ELSE 0)

\* C15: concurrent invocations are isolated: each has a counter of its own,
\* which counts its own hashed files from 0, so that the total_hashed_files
\* values of each invocation form 0..k-1 for its own k; and each has a
\* channel of its own, which holds the events of its own producers only.
C15_Isolation ==
    \A i \in Invocations :
        /\ Len(sent[i]) = OwnSends(i)
        /\ files_hashed_counter[i] = Cardinality(Counted(i))
        /\ ProgressTotals(sent[i]) \cup HeldTotals(i)
               = 0..(Cardinality(Counted(i)) - 1)
        /\ ProgressTotals(sent[i]) \cap HeldTotals(i) = {}
        /\ (pc[i] = "Completed" =>
               ProgressTotals(sent[i]) = 0..(Cardinality(Readable) - 1))

\* Both invocations are hashing at the same time and each has already sent a
\* Progress event with total_hashed_files 0.
C15_Witness ==
    /\ pc[1] = "Dispatching"
    /\ pc[2] = "Dispatching"
    /\ Running(1) # {}
    /\ Running(2) # {}
    /\ 0 \in ProgressTotals(sent[1])
    /\ 0 \in ProgressTotals(sent[2])

====
